---- MODULE Spec2Model ----
(***************************************************************************)
(* kubeconfig-updater: one run of main() as a state machine.               *)
(*                                                                         *)
(* src/main.go holds two revisions of the program:                         *)
(*   impl = "yaml"      lines   1-442  (gopkg.in/yaml.v3, slices of        *)
(*                                      Named* structs, string fields)     *)
(*   impl = "clientcmd" lines 444-777  (k8s.io/client-go clientcmd, maps   *)
(*                                      of pointers, []byte blobs)         *)
(* Both are modelled; impl is fixed for a behaviour.                       *)
(*                                                                         *)
(* A Go pointer is a sequence of length 0 (nil) or 1 (the pointee).        *)
(* A file's bytes are a record: layout (formatting/comments, lost by a     *)
(* parse), wellFormed, and the three lists and the marker the YAML holds;  *)
(* binary fields are base64 text in the file.                              *)
(***************************************************************************)
EXTENDS Integers, Sequences, FiniteSets, TLC

\* ------------------------------------------------------------------------
\* Bounds and program constants
\* ------------------------------------------------------------------------

\* Number of consecutive runs of the program on the same path.
MaxRuns == 2

\* len(s) <= 15 in shorten / shortenBytes
ShortenMax == 15

\* s[:5] and s[len(s)-5:] in shorten / shortenBytes
ShortenKeep == 5

\* ------------------------------------------------------------------------
\* Pointers
\* ------------------------------------------------------------------------

Nil == <<>>

Ptr(v) == <<v>>

IsNil(p) == Len(p) = 0

Deref(p) == p[1]

\* ------------------------------------------------------------------------
\* Strings, base64, time formatting
\* ------------------------------------------------------------------------

B64Alphabet == "ABCDEFGHIJKLMNOPQRSTUVWXYZabcdefghijklmnopqrstuvwxyz0123456789+/"

B64Char(i) == SubSeq(B64Alphabet, i + 1, i + 1)

\* The decoding table: the position of each character of the alphabet.
B64Table == [c \in {B64Char(i) : i \in 0..63} |-> CHOOSE i \in 0..63 : B64Char(i) = c]

B64Index(c) == B64Table[c]

RECURSIVE EncodeToString(_)
\* base64.StdEncoding.EncodeToString: 3 bytes -> 4 characters, '=' padding.
EncodeToString(data) ==
    IF Len(data) = 0 THEN ""
    ELSE IF Len(data) = 1 THEN
        B64Char(data[1] \div 4) \o B64Char((data[1] % 4) * 16) \o "=="
    ELSE IF Len(data) = 2 THEN
        B64Char(data[1] \div 4)
            \o B64Char((data[1] % 4) * 16 + (data[2] \div 16))
            \o B64Char((data[2] % 16) * 4) \o "="
    ELSE
        B64Char(data[1] \div 4)
            \o B64Char((data[1] % 4) * 16 + (data[2] \div 16))
            \o B64Char((data[2] % 16) * 4 + (data[3] \div 64))
            \o B64Char(data[3] % 64)
            \o EncodeToString(SubSeq(data, 4, Len(data)))

RECURSIVE DecodeString(_)
\* The base64 decoding clientcmd.Load applies to *-data fields.
DecodeString(s) ==
    IF Len(s) = 0 THEN <<>>
    ELSE
        LET a == B64Index(SubSeq(s, 1, 1))
            b == B64Index(SubSeq(s, 2, 2))
            c3 == SubSeq(s, 3, 3)
            c4 == SubSeq(s, 4, 4)
            rest == SubSeq(s, 5, Len(s))
        IN  IF c3 = "=" THEN <<a * 4 + (b \div 16)>>
            ELSE IF c4 = "=" THEN
                <<a * 4 + (b \div 16), (b % 16) * 16 + (B64Index(c3) \div 4)>>
            ELSE
                <<a * 4 + (b \div 16),
                  (b % 16) * 16 + (B64Index(c3) \div 4),
                  (B64Index(c3) % 4) * 64 + B64Index(c4)>>
                \o DecodeString(rest)

\* Mutant of shorten: the threshold is off by one.
shorten_From17(s) ==
    IF Len(s) <= ShortenMax + 1 THEN s
    ELSE SubSeq(s, 1, ShortenKeep) \o "..."
            \o SubSeq(s, Len(s) - ShortenKeep + 1, Len(s))

\* shorten: first 5 and last 5 characters of a string longer than 15.
shorten(s) ==
    IF Len(s) <= ShortenMax THEN s
    ELSE SubSeq(s, 1, ShortenKeep) \o "..."
            \o SubSeq(s, Len(s) - ShortenKeep + 1, Len(s))

\* shortenBytes: base64 encodes the byte slice before shortening.
shortenBytes(data) ==
    IF Len(data) = 0 THEN "<empty>"
    ELSE LET s == EncodeToString(data)
         IN  IF Len(s) <= ShortenMax THEN s
             ELSE SubSeq(s, 1, ShortenKeep) \o "..."
                     \o SubSeq(s, Len(s) - ShortenKeep + 1, Len(s))

Digit(d) == SubSeq("0123456789", d + 1, d + 1)

Pad2(n) == Digit((n \div 10) % 10) \o Digit(n % 10)

Pad4(n) == Pad2(n \div 100) \o Pad2(n % 100)

\* time.Now().Format("20060102")
Format20060102(t) == Pad4(t.year) \o Pad2(t.month) \o Pad2(t.day)

\* time.Now().Format(time.RFC3339): "2006-01-02T15:04:05Z07:00"
FormatRFC3339(t) ==
    Pad4(t.year) \o "-" \o Pad2(t.month) \o "-" \o Pad2(t.day) \o "T"
        \o Pad2(t.hour) \o ":" \o Pad2(t.minute) \o ":" \o Pad2(t.second)
        \o (IF t.zone = 0 THEN "Z"
            ELSE "+" \o Pad2(t.zone \div 60) \o ":" \o Pad2(t.zone % 60))

\* ------------------------------------------------------------------------
\* Documents
\* ------------------------------------------------------------------------

\* All names of the model in lexical order (clientcmd.Write lists map
\* entries sorted by name).
NameOrder ==
    <<"", "c1", "c2", "c3", "c4", "p0", "p1", "p2", "p3",
      "u1", "u2", "u3", "u4", "u9", "x1", "x2", "x3">>

SortedNames(S) == SelectSeq(NameOrder, LAMBDA n : n \in S)

Range(seq) == {seq[i] : i \in DOMAIN seq}

\* Index of the first element satisfying a match on field-extractor value,
\* 0 when there is none (a for ... range loop with break).
FirstIndex(seq, Match(_)) ==
    IF \E i \in DOMAIN seq : Match(seq[i])
    THEN CHOOSE i \in DOMAIN seq :
            Match(seq[i]) /\ \A j \in 1..(i - 1) : ~Match(seq[j])
    ELSE 0

LastIndex(seq, Match(_)) ==
    IF \E i \in DOMAIN seq : Match(seq[i])
    THEN CHOOSE i \in DOMAIN seq :
            Match(seq[i]) /\ \A j \in (i + 1)..Len(seq) : ~Match(seq[j])
    ELSE 0

FileCluster(n, server, ca) == [name |-> n, server |-> server, ca |-> ca]

FileContext(n, cluster, user) == [name |-> n, cluster |-> cluster, user |-> user]

FileUser(n, token, cert, key) == [name |-> n, token |-> token, cert |-> cert, key |-> key]

\* The bytes of a kubeconfig file.
FileBytes(layout, clusters, contexts, users, current) ==
    [layout |-> layout, wellFormed |-> TRUE, clusters |-> clusters,
     contexts |-> contexts, users |-> users, current |-> current]

\* Bytes that are no YAML mapping of the kubeconfig shape.
Malformed ==
    [layout |-> "garbage", wellFormed |-> FALSE, clusters |-> <<>>,
     contexts |-> <<>>, users |-> <<>>, current |-> ""]

\* What a failed ioutil.WriteFile can leave behind: the file was opened with
\* O_TRUNC and not (all of) the data was written.
Truncated ==
    [layout |-> "truncated", wellFormed |-> FALSE, clusters |-> <<>>,
     contexts |-> <<>>, users |-> <<>>, current |-> ""]

\* ---- impl = "yaml": type KubeConfig and yaml.Unmarshal / yaml.Marshal ----

NamedCluster(n, server, ca) ==
    [Name |-> n, Cluster |-> [Server |-> server, CertificateAuthorityData |-> ca]]

NamedContext(n, cluster, user) ==
    [Name |-> n, Context |-> [Cluster |-> cluster, User |-> user]]

NamedUser(n, token, cert, key) ==
    [Name |-> n,
     User |-> [Token |-> token, ClientCertificateData |-> cert, ClientKeyData |-> key]]

\* yaml.Unmarshal(data, &cfg): the lists in file order, the *-data fields as
\* the base64 text the file holds; the layout is not kept.
YamlUnmarshal(data) ==
    [Clusters |-> [i \in DOMAIN data.clusters |->
                    NamedCluster(data.clusters[i].name, data.clusters[i].server,
                                 data.clusters[i].ca)],
     Contexts |-> [i \in DOMAIN data.contexts |->
                    NamedContext(data.contexts[i].name, data.contexts[i].cluster,
                                 data.contexts[i].user)],
     Users |-> [i \in DOMAIN data.users |->
                    NamedUser(data.users[i].name, data.users[i].token,
                              data.users[i].cert, data.users[i].key)],
     CurrentContext |-> data.current]

\* yaml.Marshal(&cfg): the lists in slice order, in the encoder's own layout.
YamlMarshal(cfg) ==
    FileBytes("canonical",
        [i \in DOMAIN cfg.Clusters |->
            FileCluster(cfg.Clusters[i].Name, cfg.Clusters[i].Cluster.Server,
                        cfg.Clusters[i].Cluster.CertificateAuthorityData)],
        [i \in DOMAIN cfg.Contexts |->
            FileContext(cfg.Contexts[i].Name, cfg.Contexts[i].Context.Cluster,
                        cfg.Contexts[i].Context.User)],
        [i \in DOMAIN cfg.Users |->
            FileUser(cfg.Users[i].Name, cfg.Users[i].User.Token,
                     cfg.Users[i].User.ClientCertificateData,
                     cfg.Users[i].User.ClientKeyData)],
        cfg.CurrentContext)

\* ---- impl = "clientcmd": api.Config and clientcmd.Load / clientcmd.Write ----

ApiCluster(server, ca) == [Server |-> server, CertificateAuthorityData |-> ca]

ApiContext(cluster, user) == [Cluster |-> cluster, AuthInfo |-> user]

ApiAuthInfo(token, cert, key) ==
    [Token |-> token, ClientCertificateData |-> cert, ClientKeyData |-> key]

\* A list of named entries as a map of pointers; of two entries of one name
\* the later one is kept.
ListToMap(list, Conv(_)) ==
    [n \in {list[i].name : i \in DOMAIN list} |->
        Ptr(Conv(list[LastIndex(list, LAMBDA e : e.name = n)]))]

\* clientcmd.Load(data): maps keyed by name, *-data fields base64-decoded.
ClientcmdLoad(data) ==
    [Clusters |-> ListToMap(data.clusters,
                    LAMBDA e : ApiCluster(e.server, DecodeString(e.ca))),
     Contexts |-> ListToMap(data.contexts,
                    LAMBDA e : ApiContext(e.cluster, e.user)),
     AuthInfos |-> ListToMap(data.users,
                    LAMBDA e : ApiAuthInfo(e.token, DecodeString(e.cert),
                                           DecodeString(e.key))),
     CurrentContext |-> data.current]

\* clientcmd.Write(cfg): lists sorted by name, *-data fields base64-encoded.
ClientcmdWrite(cfg) ==
    LET cn == SortedNames(DOMAIN cfg.Clusters)
        xn == SortedNames(DOMAIN cfg.Contexts)
        un == SortedNames(DOMAIN cfg.AuthInfos)
    IN  FileBytes("canonical",
            [i \in DOMAIN cn |->
                FileCluster(cn[i], Deref(cfg.Clusters[cn[i]]).Server,
                    EncodeToString(Deref(cfg.Clusters[cn[i]]).CertificateAuthorityData))],
            [i \in DOMAIN xn |->
                FileContext(xn[i], Deref(cfg.Contexts[xn[i]]).Cluster,
                            Deref(cfg.Contexts[xn[i]]).AuthInfo)],
            [i \in DOMAIN un |->
                FileUser(un[i], Deref(cfg.AuthInfos[un[i]]).Token,
                    EncodeToString(Deref(cfg.AuthInfos[un[i]]).ClientCertificateData),
                    EncodeToString(Deref(cfg.AuthInfos[un[i]]).ClientKeyData))],
            cfg.CurrentContext)

\* ------------------------------------------------------------------------
\* Inputs: the file on disk, what the operator can type and paste, the clock
\* ------------------------------------------------------------------------

ServerOld == "https://old.example:6443"

ServerNew == "https://new.example:6443"

ServerOther == "https://c2.example"

\* Tokens of 12, 15 and 16 characters.
TokOld == "tok-old-aaaa"

Tok15 == "tok-new-bbbb-15"

Tok16 == "tok-new-cccc-016"

\* Blobs whose base64 text is 16, 12, 16 and 4 characters long.
CaNew == EncodeToString(<<48, 130, 1, 10, 2, 130, 1, 1, 0, 255>>)

CaOther == EncodeToString(<<48, 130, 2, 34, 48, 13, 6, 9, 42>>)

CertNew == EncodeToString(<<45, 45, 66, 69, 71, 73, 78, 32, 67, 69, 82, 84>>)

KeyNew == EncodeToString(<<107, 101, 121>>)

\* The kubeconfig at the configured path before the first run: contexts
\* x1 -> (c1, u1) and x2 -> (c2, u2); c2 and u2 are always there, c1 and u1
\* may be missing (dangling references). Either c1 takes each of its values
\* beside one u1, or u1 each of its values beside one c1, or both are missing.
DiskC1 ==
    {<<>>} \cup
    {<<FileCluster("c1", srv, ca)>> : srv \in {ServerOld, ServerNew}, ca \in {"", CaNew}}

DiskU1 ==
    {<<>>,
     <<FileUser("u1", TokOld, "", "")>>,
     <<FileUser("u1", Tok16, CertNew, KeyNew)>>,
     <<FileUser("u1", TokOld, CertNew, "")>>,
     <<FileUser("u1", Tok16, "", KeyNew)>>}

DiskEntries ==
    {<<c1, <<FileUser("u1", TokOld, "", "")>>>> : c1 \in DiskC1}
    \cup {<<<<FileCluster("c1", ServerOld, "")>>, u1>> : u1 \in DiskU1}
    \cup {<<<<>>, <<>>>>}

DiskFiles ==
    {FileBytes("handwritten",
        <<FileCluster("c2", ServerOther, CaOther)>> \o e[1],
        <<FileContext("x2", "c2", "u2"), FileContext("x1", "c1", "u1")>>,
        <<FileUser("u2", TokOld, "", "")>> \o e[2],
        "x1") : e \in DiskEntries}
    \cup {Malformed}

\* What the operator can paste. Clusters: any subset of c1 and c3; users: any
\* subset of u1 and u3; contexts: none, one context, two contexts of one
\* cluster with different users (in either order), a context whose user the
\* paste lacks, a context without cluster. Either the clusters vary beside
\* both users, or the users beside both clusters.
PastedClusters ==
    {c3 \o c1 :
        c3 \in {<<>>, <<FileCluster("c3", ServerOther, CaOther)>>},
        c1 \in {<<>>, <<FileCluster("c1", ServerNew, CaNew)>>}}

PastedUsers ==
    {u3 \o u1 :
        u3 \in {<<>>, <<FileUser("u3", Tok15, "", "")>>},
        u1 \in {<<>>, <<FileUser("u1", Tok16, CertNew, KeyNew)>>}}

PastedContexts ==
    {<<>>,
     <<FileContext("p1", "c1", "u1")>>,
     <<FileContext("p1", "c1", "u1"), FileContext("p2", "c1", "u3")>>,
     <<FileContext("p2", "c1", "u3"), FileContext("p1", "c1", "u1")>>,
     <<FileContext("p3", "c3", "u9")>>,
     <<FileContext("p1", "c1", "u1"), FileContext("p3", "c3", "u9")>>,
     <<FileContext("p0", "", "u1")>>}

PastedEntries ==
    {<<cl, <<FileUser("u3", Tok15, "", ""), FileUser("u1", Tok16, CertNew, KeyNew)>>>> :
        cl \in PastedClusters}
    \cup {<<<<FileCluster("c3", ServerOther, CaOther), FileCluster("c1", ServerNew, CaNew)>>, us>> :
        us \in PastedUsers}

PastedTexts ==
    {FileBytes("pasted", e[1], cx, e[2], "") : e \in PastedEntries, cx \in PastedContexts}
    \cup {Malformed}

\* Answers to the three "new context" inputs: all names new; the names of an
\* existing context, cluster and user; a new context of an existing cluster;
\* a new context of an existing user.
NewContextAnswers ==
    {[ctx |-> "x3", cluster |-> "c4", user |-> "u4"],
     [ctx |-> "x1", cluster |-> "c1", user |-> "u2"],
     [ctx |-> "x3", cluster |-> "c1", user |-> "u4"],
     [ctx |-> "x3", cluster |-> "c4", user |-> "u1"]}

\* Values of --config and of $HOME ("" when unset).
Environments ==
    {[config |-> "~/.kube/config", home |-> "/root"],
     [config |-> "~/.kube/config", home |-> ""]}

\* What time.Now() can return.
Times ==
    {[year |-> 2026, month |-> 11, day |-> 2, hour |-> 22, minute |-> 4,
      second |-> 5, zone |-> 0],
     [year |-> 2027, month |-> 1, day |-> 9, hour |-> 7, minute |-> 30,
      second |-> 0, zone |-> 60]}

\* ------------------------------------------------------------------------
\* State
\* ------------------------------------------------------------------------

VARIABLES
    impl,             \* "yaml" (lines 1-442) or "clientcmd" (lines 444-777)
    env,              \* the --config flag and $HOME
    tryFlag,          \* *tryFlag
    files,            \* the file system: path -> bytes
    run,              \* which run of the program this is
    answers,          \* what the operator answered: prompt -> answer
    pc,               \* position of main()
    exitCode,         \* -1 while running; 0, 1 (os.Exit(1)) or 2 (panic)
    stderr,           \* the diagnostic printed before os.Exit(1)
    stdout,           \* [summary: the printed change lines, config: the printed YAML]
    prompts,          \* the prompts shown in this run, in order
    configPath,
    origData,
    origCfg,
    selectedContext,
    targetContext,    \* yaml: index into origCfg.Contexts (0: nil);
                      \* clientcmd: targetContextName, the key of the pointee
    newContext,
    updateServer,
    newCfg,
    targetClusterName,
    pastedCluster,    \* pointer
    pastedContext,    \* yaml: pointer; clientcmd: pastedContextName
    pastedUser,       \* pointer
    changes,
    outData,
    backupPath

vars ==
    <<impl, env, tryFlag, files, run, answers, pc, exitCode, stderr, stdout,
      prompts, configPath, origData, origCfg, selectedContext, targetContext,
      newContext, updateServer, newCfg, targetClusterName, pastedCluster,
      pastedContext, pastedUser, changes, outData, backupPath>>

\* No bytes (a variable not yet assigned).
NoData ==
    [layout |-> "none", wellFormed |-> FALSE, clusters |-> <<>>,
     contexts |-> <<>>, users |-> <<>>, current |-> ""]

NoFiles == [p \in {} |-> NoData]

NoAnswers == [p \in {} |-> ""]

\* var cfg KubeConfig / the config before clientcmd.Load returns.
ZeroConfig(i) ==
    IF i = "yaml" THEN YamlUnmarshal(NoData) ELSE ClientcmdLoad(NoData)

\* filepath.Join(home, configPath[1:]) for a path that starts with "~".
ExpandPath(e) ==
    IF SubSeq(e.config, 1, 1) = "~"
    THEN e.home \o SubSeq(e.config, 2, Len(e.config))
    ELSE e.config

\* The locals of main() at the start of a run.
FreshLocals ==
    /\ pc = "start"
    /\ exitCode = -1
    /\ stderr = ""
    /\ stdout = [summary |-> <<>>, config |-> NoData]
    /\ prompts = <<>>
    /\ configPath = ""
    /\ origData = NoData
    /\ origCfg = ZeroConfig(impl)
    /\ selectedContext = ""
    /\ targetContext = IF impl = "yaml" THEN 0 ELSE ""
    /\ newContext = FALSE
    /\ updateServer = FALSE
    /\ newCfg = ZeroConfig(impl)
    /\ targetClusterName = ""
    /\ pastedCluster = Nil
    /\ pastedContext = IF impl = "yaml" THEN Nil ELSE ""
    /\ pastedUser = Nil
    /\ changes = <<>>
    /\ outData = NoData
    /\ backupPath = ""

Init ==
    /\ impl \in {"yaml", "clientcmd"}
    /\ env \in Environments
    /\ tryFlag \in BOOLEAN
    /\ files \in {NoFiles} \cup
            {(ExpandPath([config |-> env.config, home |-> "/root"]) :> d) : d \in DiskFiles}
    /\ run = 1
    /\ answers = NoAnswers
    /\ FreshLocals

\* ------------------------------------------------------------------------
\* Helpers of the actions
\* ------------------------------------------------------------------------

\* fmt.Sprintf(format, args...): the format and the rendered arguments.
Sprintf(format, args) == [format |-> format, args |-> args]

\* The answers a prompt can return: the operator repeats in a later run what
\* was answered to the same prompt before.
Ask(title, options) ==
    IF title \in DOMAIN answers THEN {answers[title]} ELSE options

\* The values a huh.NewSelect can put into its variable: one of the options;
\* the variable keeps its zero value when there is no option to pick.
SelectResult(options) == IF options = {} THEN {""} ELSE options

\* A prompt was shown and answered.
Prompted(title, a) ==
    /\ prompts' = Append(prompts, title)
    /\ answers' = (title :> a) @@ answers

\* fmt.Fprintf(os.Stderr, msg); os.Exit(1)
Exit1(msg) ==
    /\ pc' = "done"
    /\ exitCode' = 1
    /\ stderr' = msg

\* A prompt's form.Run() returned an error (the session was aborted).
Aborted(title, msg) ==
    /\ prompts' = Append(prompts, title)
    /\ Exit1(msg)
    /\ UNCHANGED answers

\* ------------------------------------------------------------------------
\* Steps both revisions share
\* ------------------------------------------------------------------------

\* Expand "~" and read the file (lines 72-88 and 487-503).
ReadConfig ==
    /\ pc = "start"
    /\ IF SubSeq(env.config, 1, 1) = "~" /\ env.home = ""
       THEN /\ Exit1("Error getting home directory")
            /\ UNCHANGED <<configPath, origData>>
       ELSE /\ configPath' = ExpandPath(env)
            /\ IF configPath' \in DOMAIN files
               THEN /\ origData' = files[configPath']
                    /\ pc' = "parse"
                    /\ UNCHANGED <<exitCode, stderr>>
               ELSE /\ Exit1("Error reading kubeconfig file")
                    /\ UNCHANGED origData
    /\ UNCHANGED <<impl, env, tryFlag, files, run, answers, stdout, prompts,
                   origCfg, selectedContext, targetContext, newContext,
                   updateServer, newCfg, targetClusterName, pastedCluster,
                   pastedContext, pastedUser, changes, outData, backupPath>>

\* yaml.Unmarshal(origData, &origCfg) (89-93); clientcmd.Load(origData) (505-510).
ParseConfig ==
    /\ pc = "parse"
    /\ IF origData.wellFormed
       THEN /\ origCfg' = IF impl = "yaml" THEN YamlUnmarshal(origData)
                          ELSE ClientcmdLoad(origData)
            /\ pc' = "select"
            /\ UNCHANGED <<exitCode, stderr>>
       ELSE /\ Exit1("Error parsing kubeconfig file")
            /\ UNCHANGED origCfg
    /\ UNCHANGED <<impl, env, tryFlag, files, run, answers, stdout, prompts,
                   configPath, origData, selectedContext, targetContext,
                   newContext, updateServer, newCfg, targetClusterName,
                   pastedCluster, pastedContext, pastedUser, changes, outData,
                   backupPath>>

\* The names offered by the first prompt (95-101, 512-517).
contextNames ==
    (IF impl = "yaml" THEN {origCfg.Contexts[i].Name : i \in DOMAIN origCfg.Contexts}
     ELSE DOMAIN origCfg.Contexts) \cup {"new context"}

\* "Select a context to update" (103-116, 519-532).
SelectContext ==
    /\ pc = "select"
    /\ \/ \E a \in Ask("Select a context to update", contextNames) :
            /\ selectedContext' = a
            /\ Prompted("Select a context to update", a)
            /\ pc' = "target"
            /\ UNCHANGED <<exitCode, stderr>>
       \/ /\ Aborted("Select a context to update", "Error selecting context")
          /\ UNCHANGED selectedContext
    /\ UNCHANGED <<impl, env, tryFlag, files, run, stdout, configPath, origData,
                   origCfg, targetContext, newContext, updateServer, newCfg,
                   targetClusterName, pastedCluster, pastedContext, pastedUser,
                   changes, outData, backupPath>>

\* The three inputs of a new context; the context is added to origCfg and
\* becomes the target (120-149: appended; 538-564: stored under its name).
CreateContext ==
    /\ pc = "target"
    /\ selectedContext = "new context"
    /\ newContext' = TRUE
    /\ \/ \E a \in Ask("Enter new context name", NewContextAnswers) :
            /\ Prompted("Enter new context name", a)
            /\ IF impl = "yaml"
               THEN /\ origCfg' = [origCfg EXCEPT !.Contexts =
                            Append(@, NamedContext(a.ctx, a.cluster, a.user))]
                    /\ targetContext' = Len(origCfg.Contexts) + 1
               ELSE /\ origCfg' = [origCfg EXCEPT !.Contexts =
                            (a.ctx :> Ptr(ApiContext(a.cluster, a.user))) @@ @]
                    /\ targetContext' = a.ctx
            /\ pc' = "paste"
            /\ UNCHANGED <<exitCode, stderr>>
       \/ /\ Aborted("Enter new context name", "Error getting new context details")
          /\ UNCHANGED <<origCfg, targetContext>>
    /\ UNCHANGED <<impl, env, tryFlag, files, run, stdout, configPath, origData,
                   selectedContext, updateServer, newCfg, targetClusterName,
                   pastedCluster, pastedContext, pastedUser, changes, outData,
                   backupPath>>

\* Locate the selected context (150-162: first of that name; 565-572: the
\* map entry).
LocateContext ==
    /\ pc = "target"
    /\ selectedContext # "new context"
    /\ LET found ==
            IF impl = "yaml"
            THEN FirstIndex(origCfg.Contexts, LAMBDA c : c.Name = selectedContext) # 0
            ELSE selectedContext \in DOMAIN origCfg.Contexts
       IN  IF found
           THEN /\ targetContext' =
                    IF impl = "yaml"
                    THEN FirstIndex(origCfg.Contexts, LAMBDA c : c.Name = selectedContext)
                    ELSE selectedContext
                /\ pc' = "confirm"
                /\ UNCHANGED <<exitCode, stderr>>
           ELSE /\ Exit1("Context not found")
                /\ UNCHANGED targetContext
    /\ UNCHANGED <<impl, env, tryFlag, files, run, answers, stdout, prompts,
                   configPath, origData, origCfg, selectedContext, newContext,
                   updateServer, newCfg, targetClusterName, pastedCluster,
                   pastedContext, pastedUser, changes, outData, backupPath>>

\* "Update the server URL for cluster X?", asked for an existing context
\* only (164-178, 574-587).
ConfirmServer ==
    /\ pc = "confirm"
    /\ \/ \E a \in Ask("Update server URL", BOOLEAN) :
            /\ updateServer' = a
            /\ Prompted("Update server URL", a)
            /\ pc' = "paste"
            /\ UNCHANGED <<exitCode, stderr>>
       \/ /\ Aborted("Update server URL", "Error getting confirmation for server update")
          /\ UNCHANGED updateServer
    /\ UNCHANGED <<impl, env, tryFlag, files, run, stdout, configPath, origData,
                   origCfg, selectedContext, targetContext, newContext, newCfg,
                   targetClusterName, pastedCluster, pastedContext, pastedUser,
                   changes, outData, backupPath>>

\* "Paste kubeconfig" and the parse of the pasted text (180-201, 589-608).
PasteKubeconfig ==
    /\ pc = "paste"
    /\ \/ \E a \in Ask("Paste kubeconfig", PastedTexts) :
            /\ Prompted("Paste kubeconfig", a)
            /\ IF a.wellFormed
               THEN /\ newCfg' = IF impl = "yaml" THEN YamlUnmarshal(a)
                                 ELSE ClientcmdLoad(a)
                    /\ pc' = "cluster"
                    /\ UNCHANGED <<exitCode, stderr>>
               ELSE /\ Exit1("Error parsing pasted kubeconfig")
                    /\ UNCHANGED newCfg
       \/ /\ Aborted("Paste kubeconfig", "Error reading pasted kubeconfig")
          /\ UNCHANGED newCfg
    /\ UNCHANGED <<impl, env, tryFlag, files, run, stdout, configPath, origData,
                   origCfg, selectedContext, targetContext, newContext,
                   updateServer, targetClusterName, pastedCluster, pastedContext,
                   pastedUser, changes, outData, backupPath>>

\* ------------------------------------------------------------------------
\* impl = "yaml" (lines 203-441)
\* ------------------------------------------------------------------------

\* Find the pasted cluster named like the target context's cluster; on a
\* miss the operator selects one and the target context is renamed to it
\* (203-247).
YamlResolveCluster ==
    /\ pc = "cluster"
    /\ impl = "yaml"
    /\ targetClusterName' = origCfg.Contexts[targetContext].Context.Cluster
    /\ LET i == FirstIndex(newCfg.Clusters, LAMBDA c : c.Name = targetClusterName')
           title == "Select a cluster from the pasted file"
       IN  IF i # 0
           THEN /\ pastedCluster' = Ptr(newCfg.Clusters[i])
                /\ pc' = "context"
                /\ UNCHANGED <<origCfg, prompts, answers, exitCode, stderr>>
           ELSE \/ \E a \in Ask(title, SelectResult(
                        {newCfg.Clusters[k].Name : k \in DOMAIN newCfg.Clusters})) :
                    LET j == FirstIndex(newCfg.Clusters, LAMBDA c : c.Name = a)
                    IN  /\ Prompted(title, a)
                        /\ IF j # 0
                           THEN /\ pastedCluster' = Ptr(newCfg.Clusters[j])
                                /\ origCfg' = [origCfg EXCEPT
                                        !.Contexts[targetContext].Context.Cluster = a]
                                /\ pc' = "context"
                                /\ UNCHANGED <<exitCode, stderr>>
                           ELSE /\ Exit1("Error: selected cluster not found in pasted kubeconfig")
                                /\ UNCHANGED <<pastedCluster, origCfg>>
                \/ /\ Aborted(title, "Error selecting cluster from pasted kubeconfig")
                   /\ UNCHANGED <<pastedCluster, origCfg>>
    /\ UNCHANGED <<impl, env, tryFlag, files, run, stdout, configPath, origData,
                   selectedContext, targetContext, newContext, updateServer,
                   newCfg, pastedContext, pastedUser, changes, outData, backupPath>>

\* The first pasted context that uses the pasted cluster; the fallback
\* prompt offers the contexts that use it (249-288).
YamlResolveContext ==
    /\ pc = "context"
    /\ impl = "yaml"
    /\ LET uses(c) == c.Context.Cluster = Deref(pastedCluster).Name
           i == FirstIndex(newCfg.Contexts, uses)
           options == {newCfg.Contexts[k].Name : k \in
                            {k \in DOMAIN newCfg.Contexts : uses(newCfg.Contexts[k])}}
           title == "Select a context from pasted kubeconfig"
       IN  IF i # 0
           THEN /\ pastedContext' = Ptr(newCfg.Contexts[i])
                /\ pc' = "user"
                /\ UNCHANGED <<prompts, answers, exitCode, stderr>>
           ELSE IF options = {}
           THEN /\ Exit1("Error: no context in pasted kubeconfig references cluster")
                /\ UNCHANGED <<pastedContext, prompts, answers>>
           ELSE \/ \E a \in Ask(title, options) :
                    LET j == FirstIndex(newCfg.Contexts, LAMBDA c : c.Name = a)
                    IN  /\ Prompted(title, a)
                        /\ pastedContext' = IF j # 0 THEN Ptr(newCfg.Contexts[j]) ELSE Nil
                        /\ pc' = "user"
                        /\ UNCHANGED <<exitCode, stderr>>
                \/ /\ Aborted(title, "Error selecting context from pasted kubeconfig")
                   /\ UNCHANGED pastedContext
    /\ UNCHANGED <<impl, env, tryFlag, files, run, stdout, configPath, origData,
                   origCfg, selectedContext, targetContext, newContext,
                   updateServer, newCfg, targetClusterName, pastedCluster,
                   pastedUser, changes, outData, backupPath>>

\* Mutant of YamlResolveUser: the lookup uses the target context's user name.
YamlResolveUser_ByTargetName ==
    /\ pc = "user"
    /\ impl = "yaml"
    /\ LET targetPastedUserName == origCfg.Contexts[targetContext].Context.User
           i == FirstIndex(newCfg.Users, LAMBDA u : u.Name = targetPastedUserName)
           title == "Select a user from the pasted kubeconfig"
       IN  IF i # 0
           THEN /\ pastedUser' = Ptr(newCfg.Users[i])
                /\ pc' = "merge"
                /\ UNCHANGED <<prompts, answers, exitCode, stderr>>
           ELSE \/ \E a \in Ask(title, SelectResult(
                        {newCfg.Users[k].Name : k \in DOMAIN newCfg.Users})) :
                    LET j == FirstIndex(newCfg.Users, LAMBDA u : u.Name = a)
                    IN  /\ Prompted(title, a)
                        /\ IF j # 0
                           THEN /\ pastedUser' = Ptr(newCfg.Users[j])
                                /\ pc' = "merge"
                                /\ UNCHANGED <<exitCode, stderr>>
                           ELSE /\ Exit1("Error: selected user not found in pasted kubeconfig")
                                /\ UNCHANGED pastedUser
                \/ /\ Aborted(title, "Error selecting user from pasted kubeconfig")
                   /\ UNCHANGED pastedUser
    /\ UNCHANGED <<impl, env, tryFlag, files, run, stdout, configPath, origData,
                   origCfg, selectedContext, targetContext, newContext,
                   updateServer, newCfg, targetClusterName, pastedCluster,
                   pastedContext, changes, outData, backupPath>>

\* The pasted user the pasted context names; on a miss the operator selects
\* one of all pasted users (290-328).
YamlResolveUser ==
    /\ pc = "user"
    /\ impl = "yaml"
    /\ LET targetPastedUserName == Deref(pastedContext).Context.User
           i == FirstIndex(newCfg.Users, LAMBDA u : u.Name = targetPastedUserName)
           title == "Select a user from the pasted kubeconfig"
       IN  IF i # 0
           THEN /\ pastedUser' = Ptr(newCfg.Users[i])
                /\ pc' = "merge"
                /\ UNCHANGED <<prompts, answers, exitCode, stderr>>
           ELSE \/ \E a \in Ask(title, SelectResult(
                        {newCfg.Users[k].Name : k \in DOMAIN newCfg.Users})) :
                    LET j == FirstIndex(newCfg.Users, LAMBDA u : u.Name = a)
                    IN  /\ Prompted(title, a)
                        /\ IF j # 0
                           THEN /\ pastedUser' = Ptr(newCfg.Users[j])
                                /\ pc' = "merge"
                                /\ UNCHANGED <<exitCode, stderr>>
                           ELSE /\ Exit1("Error: selected user not found in pasted kubeconfig")
                                /\ UNCHANGED pastedUser
                \/ /\ Aborted(title, "Error selecting user from pasted kubeconfig")
                   /\ UNCHANGED pastedUser
    /\ UNCHANGED <<impl, env, tryFlag, files, run, stdout, configPath, origData,
                   origCfg, selectedContext, targetContext, newContext,
                   updateServer, newCfg, targetClusterName, pastedCluster,
                   pastedContext, changes, outData, backupPath>>

\* Mutant of YamlMergeCluster: the server URL is updated whatever the gate.
YamlMergeCluster_Ungated(cfg, name, pasted, gate, chg) ==
    LET i == FirstIndex(cfg.Clusters, LAMBDA c : c.Name = name)
    IN  IF i # 0
        THEN LET c == cfg.Clusters[i]
                 oldCA == c.Cluster.CertificateAuthorityData
                 newCA == pasted.Cluster.CertificateAuthorityData
                 oldServer == c.Cluster.Server
                 newServer == pasted.Cluster.Server
                 chg1 == IF oldCA # newCA
                         THEN Append(chg, Sprintf(
                                "Updated cluster %q certificateAuthorityData from %s to %s",
                                <<c.Name, shorten(oldCA), shorten(newCA)>>))
                         ELSE chg
                 chg2 == IF oldServer # newServer
                         THEN Append(chg1, Sprintf(
                                "Updated cluster %q server from %s to %s",
                                <<c.Name, shorten(oldServer), shorten(newServer)>>))
                         ELSE chg1
             IN  [cfg |-> [cfg EXCEPT
                            !.Clusters[i].Cluster.Server = newServer,
                            !.Clusters[i].Cluster.CertificateAuthorityData = newCA],
                  changes |-> chg2]
        ELSE [cfg |-> [cfg EXCEPT !.Clusters =
                        Append(@, [Name |-> name, Cluster |-> pasted.Cluster])],
              changes |-> Append(chg, Sprintf(
                    "Added new cluster %q with server %s and certificateAuthorityData %s",
                    <<name, shorten(pasted.Cluster.Server),
                      shorten(pasted.Cluster.CertificateAuthorityData)>>))]

\* Update cluster information (333-367): the config and the change list
\* after the cluster part of the merge.
YamlMergeCluster(cfg, name, pasted, gate, chg) ==
    LET i == FirstIndex(cfg.Clusters, LAMBDA c : c.Name = name)
    IN  IF i # 0
        THEN LET c == cfg.Clusters[i]
                 oldCA == c.Cluster.CertificateAuthorityData
                 newCA == pasted.Cluster.CertificateAuthorityData
                 oldServer == c.Cluster.Server
                 newServer == pasted.Cluster.Server
                 chg1 == IF oldCA # newCA
                         THEN Append(chg, Sprintf(
                                "Updated cluster %q certificateAuthorityData from %s to %s",
                                <<c.Name, shorten(oldCA), shorten(newCA)>>))
                         ELSE chg
                 chg2 == IF gate /\ oldServer # newServer
                         THEN Append(chg1, Sprintf(
                                "Updated cluster %q server from %s to %s",
                                <<c.Name, shorten(oldServer), shorten(newServer)>>))
                         ELSE chg1
             IN  [cfg |-> [cfg EXCEPT
                            !.Clusters[i].Cluster.Server = IF gate THEN newServer ELSE @,
                            !.Clusters[i].Cluster.CertificateAuthorityData = newCA],
                  changes |-> chg2]
        ELSE [cfg |-> [cfg EXCEPT !.Clusters =
                        Append(@, [Name |-> name, Cluster |-> pasted.Cluster])],
              changes |-> Append(chg, Sprintf(
                    "Added new cluster %q with server %s and certificateAuthorityData %s",
                    <<name, shorten(pasted.Cluster.Server),
                      shorten(pasted.Cluster.CertificateAuthorityData)>>))]

\* Update user information (369-402).
YamlMergeUser(cfg, name, pasted, chg) ==
    LET i == FirstIndex(cfg.Users, LAMBDA u : u.Name = name)
    IN  IF i # 0
        THEN LET u == cfg.Users[i]
                 chg1 == IF u.User.Token # pasted.User.Token
                         THEN Append(chg, Sprintf(
                                "Updated user %q token from %s to %s",
                                <<u.Name, shorten(u.User.Token), shorten(pasted.User.Token)>>))
                         ELSE chg
                 chg2 == IF u.User.ClientCertificateData # pasted.User.ClientCertificateData
                         THEN Append(chg1, Sprintf(
                                "Updated user %q clientCertificateData from %s to %s",
                                <<u.Name, shorten(u.User.ClientCertificateData),
                                  shorten(pasted.User.ClientCertificateData)>>))
                         ELSE chg1
                 chg3 == IF u.User.ClientKeyData # pasted.User.ClientKeyData
                         THEN Append(chg2, Sprintf(
                                "Updated user %q clientKeyData from %s to %s",
                                <<u.Name, shorten(u.User.ClientKeyData),
                                  shorten(pasted.User.ClientKeyData)>>))
                         ELSE chg2
             IN  [cfg |-> [cfg EXCEPT !.Users[i].User = pasted.User],
                  changes |-> chg3]
        ELSE [cfg |-> [cfg EXCEPT !.Users =
                        Append(@, [Name |-> name, User |-> pasted.User])],
              changes |-> Append(chg, Sprintf(
                    "Added new user %q with token %s, clientCertificateData %s, and clientKeyData %s",
                    <<name, shorten(pasted.User.Token),
                      shorten(pasted.User.ClientCertificateData),
                      shorten(pasted.User.ClientKeyData)>>))]

\* fmt.Println of the summary (411-419, 736-744).
Summary(chg) == IF Len(chg) = 0 THEN <<"No changes made.">> ELSE chg

\* The merge, yaml.Marshal and the printed summary (330-419).
YamlMerge ==
    /\ pc = "merge"
    /\ impl = "yaml"
    /\ LET ctx == origCfg.Contexts[targetContext].Context
           afterCluster == YamlMergeCluster(origCfg, ctx.Cluster, Deref(pastedCluster),
                                            newContext \/ updateServer, <<>>)
           afterUser == YamlMergeUser(afterCluster.cfg, ctx.User, Deref(pastedUser),
                                      afterCluster.changes)
       IN  /\ origCfg' = afterUser.cfg
           /\ changes' = afterUser.changes
           /\ outData' = YamlMarshal(afterUser.cfg)
           /\ stdout' = [stdout EXCEPT !.summary = Summary(afterUser.changes)]
    /\ pc' = "output"
    /\ UNCHANGED <<impl, env, tryFlag, files, run, answers, exitCode, stderr,
                   prompts, configPath, origData, selectedContext, targetContext,
                   newContext, updateServer, newCfg, targetClusterName,
                   pastedCluster, pastedContext, pastedUser, backupPath>>

\* --try: print the updated configuration and return (421-426).
YamlTryPrint ==
    /\ pc = "output"
    /\ impl = "yaml"
    /\ tryFlag
    /\ stdout' = [stdout EXCEPT !.config = outData]
    /\ pc' = "done"
    /\ exitCode' = 0
    /\ UNCHANGED <<impl, env, tryFlag, files, run, answers, stderr, prompts,
                   configPath, origData, origCfg, selectedContext, targetContext,
                   newContext, updateServer, newCfg, targetClusterName,
                   pastedCluster, pastedContext, pastedUser, changes, outData,
                   backupPath>>

\* ioutil.WriteFile(path, data, 0o644): the file holds data; or the open
\* failed and nothing changed; or the write failed after the truncation.
WriteFile(path, data, outcome) ==
    IF outcome = "ok" THEN (path :> data) @@ files
    ELSE IF outcome = "truncated" THEN (path :> Truncated) @@ files
    ELSE files

WriteOutcomes == {"ok", "truncated", "refused"}

\* Mutant of YamlWriteBackup: a failed backup write does not end the run.
YamlWriteBackup_ErrorIgnored ==
    /\ pc = "output"
    /\ impl = "yaml"
    /\ ~tryFlag
    /\ \E now \in Times, outcome \in WriteOutcomes :
        /\ backupPath' = configPath \o ".backup." \o Format20060102(now)
        /\ files' = WriteFile(backupPath', origData, outcome)
        /\ pc' = "write"
        /\ UNCHANGED <<exitCode, stderr>>
    /\ UNCHANGED <<impl, env, tryFlag, run, answers, stdout, prompts, configPath,
                   origData, origCfg, selectedContext, targetContext, newContext,
                   updateServer, newCfg, targetClusterName, pastedCluster,
                   pastedContext, pastedUser, changes, outData>>

\* Mutant of YamlWriteBackup: the backup is written with --try as well.
YamlWriteBackup_InTryMode ==
    /\ pc = "output"
    /\ impl = "yaml"
    /\ \E now \in Times, outcome \in WriteOutcomes :
        /\ backupPath' = configPath \o ".backup." \o Format20060102(now)
        /\ files' = WriteFile(backupPath', origData, outcome)
        /\ IF outcome = "ok"
           THEN pc' = "write" /\ UNCHANGED <<exitCode, stderr>>
           ELSE Exit1("Error writing backup file")
    /\ UNCHANGED <<impl, env, tryFlag, run, answers, stdout, prompts, configPath,
                   origData, origCfg, selectedContext, targetContext, newContext,
                   updateServer, newCfg, targetClusterName, pastedCluster,
                   pastedContext, pastedUser, changes, outData>>

\* The backup of the original bytes, named by the day (428-434).
YamlWriteBackup ==
    /\ pc = "output"
    /\ impl = "yaml"
    /\ ~tryFlag
    /\ \E now \in Times, outcome \in WriteOutcomes :
        /\ backupPath' = configPath \o ".backup." \o Format20060102(now)
        /\ files' = WriteFile(backupPath', origData, outcome)
        /\ IF outcome = "ok"
           THEN pc' = "write" /\ UNCHANGED <<exitCode, stderr>>
           ELSE Exit1("Error writing backup file")
    /\ UNCHANGED <<impl, env, tryFlag, run, answers, stdout, prompts, configPath,
                   origData, origCfg, selectedContext, targetContext, newContext,
                   updateServer, newCfg, targetClusterName, pastedCluster,
                   pastedContext, pastedUser, changes, outData>>

\* Write the updated configuration back to the file (436-441).
YamlWriteTarget ==
    /\ pc = "write"
    /\ impl = "yaml"
    /\ \E outcome \in WriteOutcomes :
        /\ files' = WriteFile(configPath, outData, outcome)
        /\ IF outcome = "ok"
           THEN pc' = "done" /\ exitCode' = 0 /\ UNCHANGED stderr
           ELSE Exit1("Error writing updated kubeconfig")
    /\ UNCHANGED <<impl, env, tryFlag, run, answers, stdout, prompts, configPath,
                   origData, origCfg, selectedContext, targetContext, newContext,
                   updateServer, newCfg, targetClusterName, pastedCluster,
                   pastedContext, pastedUser, changes, outData, backupPath>>

\* ------------------------------------------------------------------------
\* impl = "clientcmd" (lines 610-777)
\* ------------------------------------------------------------------------

\* m[key] of a map of pointers: nil for a missing key.
Lookup(m, key) == IF key \in DOMAIN m THEN m[key] ELSE Nil

\* Mutant of ClientcmdResolveCluster: the selection renames the context's
\* cluster reference but targetClusterName keeps the old name.
ClientcmdResolveCluster_NameNotUpdated ==
    /\ pc = "cluster"
    /\ impl = "clientcmd"
    /\ LET name == Deref(origCfg.Contexts[targetContext]).Cluster
           title == "Select cluster from pasted config"
       IN  IF name \in DOMAIN newCfg.Clusters
           THEN /\ targetClusterName' = name
                /\ pastedCluster' = newCfg.Clusters[name]
                /\ pc' = "context"
                /\ UNCHANGED <<origCfg, prompts, answers, exitCode, stderr>>
           ELSE \/ \E a \in Ask(title, SelectResult(DOMAIN newCfg.Clusters)) :
                    /\ Prompted(title, a)
                    /\ pastedCluster' = Lookup(newCfg.Clusters, a)
                    /\ origCfg' = [origCfg EXCEPT !.Contexts[targetContext] =
                                        Ptr([Deref(@) EXCEPT !.Cluster = a])]
                    /\ targetClusterName' = name
                    /\ pc' = "context"
                    /\ UNCHANGED <<exitCode, stderr>>
                \/ /\ Aborted(title, "Error selecting cluster")
                   /\ targetClusterName' = name
                   /\ UNCHANGED <<pastedCluster, origCfg>>
    /\ UNCHANGED <<impl, env, tryFlag, files, run, stdout, configPath, origData,
                   selectedContext, targetContext, newContext, updateServer,
                   newCfg, pastedContext, pastedUser, changes, outData, backupPath>>

\* The pasted cluster of the target context's cluster name; on a miss the
\* operator selects one, and the target context and targetClusterName take
\* the selected name (610-633).
ClientcmdResolveCluster ==
    /\ pc = "cluster"
    /\ impl = "clientcmd"
    /\ LET name == Deref(origCfg.Contexts[targetContext]).Cluster
           title == "Select cluster from pasted config"
       IN  IF name \in DOMAIN newCfg.Clusters
           THEN /\ targetClusterName' = name
                /\ pastedCluster' = newCfg.Clusters[name]
                /\ pc' = "context"
                /\ UNCHANGED <<origCfg, prompts, answers, exitCode, stderr>>
           ELSE \/ \E a \in Ask(title, SelectResult(DOMAIN newCfg.Clusters)) :
                    /\ Prompted(title, a)
                    /\ pastedCluster' = Lookup(newCfg.Clusters, a)
                    /\ origCfg' = [origCfg EXCEPT !.Contexts[targetContext] =
                                        Ptr([Deref(@) EXCEPT !.Cluster = a])]
                    /\ targetClusterName' = a
                    /\ pc' = "context"
                    /\ UNCHANGED <<exitCode, stderr>>
                \/ /\ Aborted(title, "Error selecting cluster")
                   /\ targetClusterName' = name
                   /\ UNCHANGED <<pastedCluster, origCfg>>
    /\ UNCHANGED <<impl, env, tryFlag, files, run, stdout, configPath, origData,
                   selectedContext, targetContext, newContext, updateServer,
                   newCfg, pastedContext, pastedUser, changes, outData, backupPath>>

\* The pasted contexts of the target cluster: ranging over the map stops at
\* whichever of them the iteration meets first (635-666).
ClientcmdResolveContext ==
    /\ pc = "context"
    /\ impl = "clientcmd"
    /\ LET matching == {n \in DOMAIN newCfg.Contexts :
                            Deref(newCfg.Contexts[n]).Cluster = targetClusterName}
       IN  IF matching = {}
           THEN /\ Exit1("No contexts for cluster in pasted config")
                /\ UNCHANGED pastedContext
           ELSE /\ \E n \in matching : pastedContext' = n
                /\ pc' = "user"
                /\ UNCHANGED <<exitCode, stderr>>
    /\ UNCHANGED <<impl, env, tryFlag, files, run, answers, stdout, prompts,
                   configPath, origData, origCfg, selectedContext, targetContext,
                   newContext, updateServer, newCfg, targetClusterName,
                   pastedCluster, pastedUser, changes, outData, backupPath>>

\* The pasted user the pasted context names; on a miss the operator selects
\* one of all pasted users (668-688).
ClientcmdResolveUser ==
    /\ pc = "user"
    /\ impl = "clientcmd"
    /\ LET name == Deref(newCfg.Contexts[pastedContext]).AuthInfo
           title == "Select user from pasted config"
       IN  IF name \in DOMAIN newCfg.AuthInfos
           THEN /\ pastedUser' = newCfg.AuthInfos[name]
                /\ pc' = "merge"
                /\ UNCHANGED <<prompts, answers, exitCode, stderr>>
           ELSE \/ \E a \in Ask(title, SelectResult(DOMAIN newCfg.AuthInfos)) :
                    /\ Prompted(title, a)
                    /\ pastedUser' = Lookup(newCfg.AuthInfos, a)
                    /\ pc' = "merge"
                    /\ UNCHANGED <<exitCode, stderr>>
                \/ /\ Aborted(title, "Error selecting user")
                   /\ UNCHANGED pastedUser
    /\ UNCHANGED <<impl, env, tryFlag, files, run, stdout, configPath, origData,
                   origCfg, selectedContext, targetContext, newContext,
                   updateServer, newCfg, targetClusterName, pastedCluster,
                   pastedContext, changes, outData, backupPath>>

\* Mutant of ClientcmdMergeCluster: an added cluster takes the CA data only.
ClientcmdMergeCluster_AddedWithoutServer(cfg, name, pasted, gate, chg) ==
    IF IsNil(pasted)
    THEN [cfg |-> IF name \in DOMAIN cfg.Clusters THEN cfg
                  ELSE [cfg EXCEPT !.Clusters = (name :> Nil) @@ @],
          changes |-> chg, panic |-> TRUE]
    ELSE IF name \in DOMAIN cfg.Clusters
    THEN LET existingCluster == Deref(cfg.Clusters[name])
             new == Deref(pasted)
             serverDiffers == gate /\ existingCluster.Server # new.Server
             caDiffers == existingCluster.CertificateAuthorityData
                            # new.CertificateAuthorityData
             chg1 == IF serverDiffers
                     THEN Append(chg, Sprintf(
                            "Updated cluster %q server from %s to %s",
                            <<name, existingCluster.Server, new.Server>>))
                     ELSE chg
             chg2 == IF caDiffers
                     THEN Append(chg1, Sprintf(
                            "Updated cluster %q CA data from %s to %s",
                            <<name, shortenBytes(existingCluster.CertificateAuthorityData),
                              shortenBytes(new.CertificateAuthorityData)>>))
                     ELSE chg1
         IN  [cfg |-> [cfg EXCEPT !.Clusters[name] = Ptr([existingCluster EXCEPT
                            !.Server = IF serverDiffers THEN new.Server ELSE @,
                            !.CertificateAuthorityData =
                                IF caDiffers THEN new.CertificateAuthorityData ELSE @])],
              changes |-> chg2, panic |-> FALSE]
    ELSE [cfg |-> [cfg EXCEPT !.Clusters =
                    (name :> Ptr([Deref(pasted) EXCEPT !.Server = ""])) @@ @],
          changes |-> Append(chg, Sprintf(
                "Added cluster %q with server %s and CA data %s",
                <<name, Deref(pasted).Server,
                  shortenBytes(Deref(pasted).CertificateAuthorityData)>>)),
          panic |-> FALSE]

\* Update cluster (692-709). pasted is a pointer: the code dereferences it
\* in either branch, so a nil pointer ends the merge in a panic.
ClientcmdMergeCluster(cfg, name, pasted, gate, chg) ==
    IF IsNil(pasted)
    THEN [cfg |-> IF name \in DOMAIN cfg.Clusters THEN cfg
                  ELSE [cfg EXCEPT !.Clusters = (name :> Nil) @@ @],
          changes |-> chg, panic |-> TRUE]
    ELSE IF name \in DOMAIN cfg.Clusters
    THEN LET existingCluster == Deref(cfg.Clusters[name])
             new == Deref(pasted)
             serverDiffers == gate /\ existingCluster.Server # new.Server
             caDiffers == existingCluster.CertificateAuthorityData
                            # new.CertificateAuthorityData
             chg1 == IF serverDiffers
                     THEN Append(chg, Sprintf(
                            "Updated cluster %q server from %s to %s",
                            <<name, existingCluster.Server, new.Server>>))
                     ELSE chg
             chg2 == IF caDiffers
                     THEN Append(chg1, Sprintf(
                            "Updated cluster %q CA data from %s to %s",
                            <<name, shortenBytes(existingCluster.CertificateAuthorityData),
                              shortenBytes(new.CertificateAuthorityData)>>))
                     ELSE chg1
         IN  [cfg |-> [cfg EXCEPT !.Clusters[name] = Ptr([existingCluster EXCEPT
                            !.Server = IF serverDiffers THEN new.Server ELSE @,
                            !.CertificateAuthorityData =
                                IF caDiffers THEN new.CertificateAuthorityData ELSE @])],
              changes |-> chg2, panic |-> FALSE]
    ELSE [cfg |-> [cfg EXCEPT !.Clusters = (name :> pasted) @@ @],
          changes |-> Append(chg, Sprintf(
                "Added cluster %q with server %s and CA data %s",
                <<name, Deref(pasted).Server,
                  shortenBytes(Deref(pasted).CertificateAuthorityData)>>)),
          panic |-> FALSE]

\* Mutant of ClientcmdMergeUser: a changed client certificate is stored but
\* not recorded.
ClientcmdMergeUser_CertUnreported(cfg, name, pasted, chg) ==
    IF IsNil(pasted)
    THEN [cfg |-> IF name \in DOMAIN cfg.AuthInfos THEN cfg
                  ELSE [cfg EXCEPT !.AuthInfos = (name :> Nil) @@ @],
          changes |-> chg, panic |-> TRUE]
    ELSE IF name \in DOMAIN cfg.AuthInfos
    THEN LET existingUser == Deref(cfg.AuthInfos[name])
             new == Deref(pasted)
             tokenDiffers == existingUser.Token # new.Token
             certDiffers == existingUser.ClientCertificateData # new.ClientCertificateData
             keyDiffers == existingUser.ClientKeyData # new.ClientKeyData
             chg1 == IF tokenDiffers
                     THEN Append(chg, Sprintf(
                            "Updated user %q token from %s to %s",
                            <<name, shorten(existingUser.Token), shorten(new.Token)>>))
                     ELSE chg
             chg2 == chg1
             chg3 == IF keyDiffers
                     THEN Append(chg2, Sprintf(
                            "Updated user %q client key from %s to %s",
                            <<name, shortenBytes(existingUser.ClientKeyData),
                              shortenBytes(new.ClientKeyData)>>))
                     ELSE chg2
         IN  [cfg |-> [cfg EXCEPT !.AuthInfos[name] = Ptr([existingUser EXCEPT
                            !.Token = IF tokenDiffers THEN new.Token ELSE @,
                            !.ClientCertificateData =
                                IF certDiffers THEN new.ClientCertificateData ELSE @,
                            !.ClientKeyData =
                                IF keyDiffers THEN new.ClientKeyData ELSE @])],
              changes |-> chg3, panic |-> FALSE]
    ELSE [cfg |-> [cfg EXCEPT !.AuthInfos = (name :> pasted) @@ @],
          changes |-> Append(chg, Sprintf(
                "Added user %q with token %s, client cert %s, and client key %s",
                <<name, shorten(Deref(pasted).Token),
                  shortenBytes(Deref(pasted).ClientCertificateData),
                  shortenBytes(Deref(pasted).ClientKeyData)>>)),
          panic |-> FALSE]

\* Update user (711-734).
ClientcmdMergeUser(cfg, name, pasted, chg) ==
    IF IsNil(pasted)
    THEN [cfg |-> IF name \in DOMAIN cfg.AuthInfos THEN cfg
                  ELSE [cfg EXCEPT !.AuthInfos = (name :> Nil) @@ @],
          changes |-> chg, panic |-> TRUE]
    ELSE IF name \in DOMAIN cfg.AuthInfos
    THEN LET existingUser == Deref(cfg.AuthInfos[name])
             new == Deref(pasted)
             tokenDiffers == existingUser.Token # new.Token
             certDiffers == existingUser.ClientCertificateData # new.ClientCertificateData
             keyDiffers == existingUser.ClientKeyData # new.ClientKeyData
             chg1 == IF tokenDiffers
                     THEN Append(chg, Sprintf(
                            "Updated user %q token from %s to %s",
                            <<name, shorten(existingUser.Token), shorten(new.Token)>>))
                     ELSE chg
             chg2 == IF certDiffers
                     THEN Append(chg1, Sprintf(
                            "Updated user %q client cert from %s to %s",
                            <<name, shortenBytes(existingUser.ClientCertificateData),
                              shortenBytes(new.ClientCertificateData)>>))
                     ELSE chg1
             chg3 == IF keyDiffers
                     THEN Append(chg2, Sprintf(
                            "Updated user %q client key from %s to %s",
                            <<name, shortenBytes(existingUser.ClientKeyData),
                              shortenBytes(new.ClientKeyData)>>))
                     ELSE chg2
         IN  [cfg |-> [cfg EXCEPT !.AuthInfos[name] = Ptr([existingUser EXCEPT
                            !.Token = IF tokenDiffers THEN new.Token ELSE @,
                            !.ClientCertificateData =
                                IF certDiffers THEN new.ClientCertificateData ELSE @,
                            !.ClientKeyData =
                                IF keyDiffers THEN new.ClientKeyData ELSE @])],
              changes |-> chg3, panic |-> FALSE]
    ELSE [cfg |-> [cfg EXCEPT !.AuthInfos = (name :> pasted) @@ @],
          changes |-> Append(chg, Sprintf(
                "Added user %q with token %s, client cert %s, and client key %s",
                <<name, shorten(Deref(pasted).Token),
                  shortenBytes(Deref(pasted).ClientCertificateData),
                  shortenBytes(Deref(pasted).ClientKeyData)>>)),
          panic |-> FALSE]

\* The merge and the printed summary (690-744); a nil pastedCluster or
\* pastedUser panics before anything is printed.
ClientcmdMerge ==
    /\ pc = "merge"
    /\ impl = "clientcmd"
    /\ LET afterCluster == ClientcmdMergeCluster(origCfg, targetClusterName, pastedCluster,
                                                updateServer \/ newContext, <<>>)
           targetUserName == Deref(origCfg.Contexts[targetContext]).AuthInfo
           afterUser == ClientcmdMergeUser(afterCluster.cfg, targetUserName, pastedUser,
                                          afterCluster.changes)
       IN  IF afterCluster.panic
           THEN /\ origCfg' = afterCluster.cfg
                /\ changes' = afterCluster.changes
                /\ pc' = "done"
                /\ exitCode' = 2
                /\ stderr' = "panic: nil pointer dereference"
                /\ UNCHANGED stdout
           ELSE IF afterUser.panic
           THEN /\ origCfg' = afterUser.cfg
                /\ changes' = afterUser.changes
                /\ pc' = "done"
                /\ exitCode' = 2
                /\ stderr' = "panic: nil pointer dereference"
                /\ UNCHANGED stdout
           ELSE /\ origCfg' = afterUser.cfg
                /\ changes' = afterUser.changes
                /\ stdout' = [stdout EXCEPT !.summary = Summary(afterUser.changes)]
                /\ pc' = "output"
                /\ UNCHANGED <<exitCode, stderr>>
    /\ UNCHANGED <<impl, env, tryFlag, files, run, answers, prompts, configPath,
                   origData, selectedContext, targetContext, newContext,
                   updateServer, newCfg, targetClusterName, pastedCluster,
                   pastedContext, pastedUser, outData, backupPath>>

\* --try: clientcmd.Write and print (746-756).
ClientcmdTryPrint ==
    /\ pc = "output"
    /\ impl = "clientcmd"
    /\ tryFlag
    /\ outData' = ClientcmdWrite(origCfg)
    /\ stdout' = [stdout EXCEPT !.config = outData']
    /\ pc' = "done"
    /\ exitCode' = 0
    /\ UNCHANGED <<impl, env, tryFlag, files, run, answers, stderr, prompts,
                   configPath, origData, origCfg, selectedContext, targetContext,
                   newContext, updateServer, newCfg, targetClusterName,
                   pastedCluster, pastedContext, pastedUser, changes, backupPath>>

\* Mutant of ClientcmdWriteBackup: the backup holds the serialized document.
ClientcmdWriteBackup_OfSerialized ==
    /\ pc = "output"
    /\ impl = "clientcmd"
    /\ ~tryFlag
    /\ \E now \in Times, outcome \in WriteOutcomes :
        /\ backupPath' = configPath \o ".backup." \o FormatRFC3339(now)
        /\ files' = WriteFile(backupPath', ClientcmdWrite(ClientcmdLoad(origData)), outcome)
        /\ IF outcome = "ok"
           THEN pc' = "write" /\ UNCHANGED <<exitCode, stderr>>
           ELSE Exit1("Error creating backup")
    /\ UNCHANGED <<impl, env, tryFlag, run, answers, stdout, prompts, configPath,
                   origData, origCfg, selectedContext, targetContext, newContext,
                   updateServer, newCfg, targetClusterName, pastedCluster,
                   pastedContext, pastedUser, changes, outData>>

\* The backup of the original bytes, named by the RFC 3339 time (758-764).
ClientcmdWriteBackup ==
    /\ pc = "output"
    /\ impl = "clientcmd"
    /\ ~tryFlag
    /\ \E now \in Times, outcome \in WriteOutcomes :
        /\ backupPath' = configPath \o ".backup." \o FormatRFC3339(now)
        /\ files' = WriteFile(backupPath', origData, outcome)
        /\ IF outcome = "ok"
           THEN pc' = "write" /\ UNCHANGED <<exitCode, stderr>>
           ELSE Exit1("Error creating backup")
    /\ UNCHANGED <<impl, env, tryFlag, run, answers, stdout, prompts, configPath,
                   origData, origCfg, selectedContext, targetContext, newContext,
                   updateServer, newCfg, targetClusterName, pastedCluster,
                   pastedContext, pastedUser, changes, outData>>

\* clientcmd.Write and the write of the updated config (766-776).
ClientcmdWriteTarget ==
    /\ pc = "write"
    /\ impl = "clientcmd"
    /\ outData' = ClientcmdWrite(origCfg)
    /\ \E outcome \in WriteOutcomes :
        /\ files' = WriteFile(configPath, outData', outcome)
        /\ IF outcome = "ok"
           THEN pc' = "done" /\ exitCode' = 0 /\ UNCHANGED stderr
           ELSE Exit1("Error writing updated config")
    /\ UNCHANGED <<impl, env, tryFlag, run, answers, stdout, prompts, configPath,
                   origData, origCfg, selectedContext, targetContext, newContext,
                   updateServer, newCfg, targetClusterName, pastedCluster,
                   pastedContext, pastedUser, changes, backupPath>>

\* ------------------------------------------------------------------------
\* The operator starts the program again on the file the last run wrote,
\* pasting the same text and giving the same answers.
\* ------------------------------------------------------------------------

Rerun ==
    /\ pc = "done"
    /\ exitCode = 0
    /\ ~tryFlag
    /\ run < MaxRuns
    /\ run' = run + 1
    /\ pc' = "start"
    /\ exitCode' = -1
    /\ stderr' = ""
    /\ stdout' = [summary |-> <<>>, config |-> NoData]
    /\ prompts' = <<>>
    /\ configPath' = ""
    /\ origData' = NoData
    /\ origCfg' = ZeroConfig(impl)
    /\ selectedContext' = ""
    /\ targetContext' = IF impl = "yaml" THEN 0 ELSE ""
    /\ newContext' = FALSE
    /\ updateServer' = FALSE
    /\ newCfg' = ZeroConfig(impl)
    /\ targetClusterName' = ""
    /\ pastedCluster' = Nil
    /\ pastedContext' = IF impl = "yaml" THEN Nil ELSE ""
    /\ pastedUser' = Nil
    /\ changes' = <<>>
    /\ outData' = NoData
    /\ backupPath' = ""
    /\ UNCHANGED <<impl, env, tryFlag, files, answers>>

Next ==
    \/ ReadConfig
    \/ ParseConfig
    \/ SelectContext
    \/ CreateContext
    \/ LocateContext
    \/ ConfirmServer
    \/ PasteKubeconfig
    \/ YamlResolveCluster
    \/ YamlResolveContext
    \/ YamlResolveUser
    \/ YamlMerge
    \/ YamlTryPrint
    \/ YamlWriteBackup
    \/ YamlWriteTarget
    \/ ClientcmdResolveCluster
    \/ ClientcmdResolveContext
    \/ ClientcmdResolveUser
    \/ ClientcmdMerge
    \/ ClientcmdTryPrint
    \/ ClientcmdWriteBackup
    \/ ClientcmdWriteTarget
    \/ Rerun

Spec == Init /\ [][Next]_vars

\* ------------------------------------------------------------------------
\* Vocabulary of the properties
\* ------------------------------------------------------------------------

\* The path of the kubeconfig the runs work on.
TargetPath == ExpandPath([config |-> env.config, home |-> "/root"])

ContentAt(fs, path) == IF path \in DOMAIN fs THEN fs[path] ELSE NoData

\* The document a revision builds from bytes, and the bytes it makes of one.
Parse(data) == IF impl = "yaml" THEN YamlUnmarshal(data) ELSE ClientcmdLoad(data)

Serialize(cfg) == IF impl = "yaml" THEN YamlMarshal(cfg) ELSE ClientcmdWrite(cfg)

\* The merge of this run has completed (the summary has been printed).
MergeDone == stdout.summary # <<>>

\* The backup write of this run has succeeded.
BackupWritten ==
    /\ backupPath # ""
    /\ stderr \notin {"Error writing backup file", "Error creating backup"}

\* The run has ended with exit status 0.
Succeeded == pc = "done" /\ exitCode = 0

\* ------------------------------------------------------------------------
\* C1
\* ------------------------------------------------------------------------

\* C1: the bytes at the target path change only in the step that follows a
\* successful backup write of the same run, in apply mode, after the read,
\* both parses, every prompt and the resolution of the pasted cluster, context
\* and user have succeeded; the backup then holds the bytes the run read, and
\* these are the bytes the target held until that step. No other step of any
\* run (a failed backup write, an abort, an error exit) changes the target.
C1_TargetOverwrittenOnlyAfterBackup ==
    [][ContentAt(files', TargetPath) # ContentAt(files, TargetPath) =>
            /\ ~tryFlag
            /\ pc = "write"
            /\ exitCode = -1
            /\ configPath = TargetPath
            /\ origData.wellFormed
            /\ "Paste kubeconfig" \in Range(prompts)
            /\ ~IsNil(pastedCluster)
            /\ ~IsNil(pastedUser)
            /\ MergeDone
            /\ BackupWritten
            /\ ContentAt(files, backupPath) = origData
            /\ ContentAt(files, TargetPath) = origData]_vars

\* A first run has overwritten the target with a merged document that differs
\* from the original, the backup in place.
C1_Witness ==
    /\ Succeeded
    /\ ~tryFlag
    /\ run = 1
    /\ files[TargetPath] = outData
    /\ outData # origData
    /\ changes # <<>>
    /\ files[backupPath] = origData

\* ------------------------------------------------------------------------
\* C2
\* ------------------------------------------------------------------------

\* C2: with --try no step of the run changes the file system (no backup file
\* appears, the target keeps its bytes), and the step after the summary prints
\* the serialized merged document and ends the run with exit status 0.
C2_TryModeWritesNothing ==
    [][tryFlag =>
            /\ files' = files
            /\ pc = "output" =>
                /\ pc' = "done"
                /\ exitCode' = 0
                /\ stdout'.config = Serialize(origCfg)
                /\ stdout'.summary = Summary(changes)]_vars

\* A try run has ended after printing a merged document that differs from
\* the file, which still holds its bytes and has no backup beside it.
C2_Witness ==
    /\ tryFlag
    /\ Succeeded
    /\ changes # <<>>
    /\ stdout.config = Serialize(origCfg)
    /\ Parse(origData) # origCfg
    /\ DOMAIN files = {TargetPath}
    /\ files[TargetPath] = origData

\* ------------------------------------------------------------------------
\* C3
\* ------------------------------------------------------------------------

\* C3: once the backup write of a run has succeeded, the backup file holds
\* the bytes the run read from the config path (origData, which are the bytes
\* of the target until the target is written): not the serialized document,
\* whatever the merge changed.
C3_BackupHoldsOriginalBytes ==
    BackupWritten =>
        /\ ContentAt(files, backupPath) = origData
        /\ pc = "write" => ContentAt(files, configPath) = origData

\* A backup has been written after a merge that changed the document, whose
\* serialization differs from the bytes read.
C3_Witness ==
    /\ BackupWritten
    /\ pc = "write"
    /\ changes # <<>>
    /\ Serialize(origCfg) # origData
    /\ Serialize(Parse(origData)) # origData
    /\ files[backupPath] = origData

\* ------------------------------------------------------------------------
\* C9
\* ------------------------------------------------------------------------

IsDigits(s) == \A i \in 1..Len(s) : \E d \in 0..9 : SubSeq(s, i, i) = Digit(d)

RECURSIVE DecimalValue(_)
DecimalValue(s) ==
    IF Len(s) = 0 THEN 0
    ELSE 10 * DecimalValue(SubSeq(s, 1, Len(s) - 1))
            + (CHOOSE d \in 0..9 : SubSeq(s, Len(s), Len(s)) = Digit(d))

\* C9: the backup path is the config path, ".backup." and eight digits that
\* are the year, month and day of a time the clock can show.
C9_BackupPathIsDateStamped ==
    backupPath # "" =>
        LET prefix == configPath \o ".backup."
            stamp == SubSeq(backupPath, Len(prefix) + 1, Len(backupPath))
        IN  /\ SubSeq(backupPath, 1, Len(prefix)) = prefix
            /\ Len(stamp) = 8
            /\ IsDigits(stamp)
            /\ \E t \in Times :
                    DecimalValue(stamp) = t.year * 10000 + t.month * 100 + t.day

\* ------------------------------------------------------------------------
\* Views of a document that do not depend on the revision
\* ------------------------------------------------------------------------

\* The entries of a document as lists of [name, val]: in slice order (yaml),
\* sorted by name (clientcmd).
ClusterList(cfg) ==
    IF impl = "yaml"
    THEN [i \in DOMAIN cfg.Clusters |->
            [name |-> cfg.Clusters[i].Name, val |-> cfg.Clusters[i].Cluster]]
    ELSE LET ns == SortedNames(DOMAIN cfg.Clusters)
         IN  [i \in DOMAIN ns |-> [name |-> ns[i], val |-> Deref(cfg.Clusters[ns[i]])]]

UserList(cfg) ==
    IF impl = "yaml"
    THEN [i \in DOMAIN cfg.Users |->
            [name |-> cfg.Users[i].Name, val |-> cfg.Users[i].User]]
    ELSE LET ns == SortedNames(DOMAIN cfg.AuthInfos)
         IN  [i \in DOMAIN ns |-> [name |-> ns[i], val |-> Deref(cfg.AuthInfos[ns[i]])]]

ContextList(cfg) ==
    IF impl = "yaml"
    THEN [i \in DOMAIN cfg.Contexts |->
            [name |-> cfg.Contexts[i].Name,
             val |-> [cluster |-> cfg.Contexts[i].Context.Cluster,
                      user |-> cfg.Contexts[i].Context.User]]]
    ELSE LET ns == SortedNames(DOMAIN cfg.Contexts)
         IN  [i \in DOMAIN ns |->
                [name |-> ns[i],
                 val |-> [cluster |-> Deref(cfg.Contexts[ns[i]]).Cluster,
                          user |-> Deref(cfg.Contexts[ns[i]]).AuthInfo]]]

Named(list, n) == SelectSeq(list, LAMBDA e : e.name = n)

NotNamed(list, n) == SelectSeq(list, LAMBDA e : e.name # n)

\* The document the run loaded, before any prompt changed it.
PreRun == Parse(origData)

\* The target context's references as they are now.
Target ==
    IF impl = "yaml"
    THEN [cluster |-> origCfg.Contexts[targetContext].Context.Cluster,
          user |-> origCfg.Contexts[targetContext].Context.User]
    ELSE [cluster |-> Deref(origCfg.Contexts[targetContext]).Cluster,
          user |-> Deref(origCfg.Contexts[targetContext]).AuthInfo]

\* The resolved pasted cluster and user as field records.
PastedClusterVal ==
    IF impl = "yaml" THEN Deref(pastedCluster).Cluster ELSE Deref(pastedCluster)

PastedUserVal ==
    IF impl = "yaml" THEN Deref(pastedUser).User ELSE Deref(pastedUser)

\* The user reference of the resolved pasted context, and the pasted names.
PastedContextUser ==
    IF impl = "yaml" THEN Deref(pastedContext).Context.User
    ELSE Deref(newCfg.Contexts[pastedContext]).AuthInfo

PastedUserNames == {e.name : e \in Range(UserList(newCfg))}

\* The change entries of one format.
Entries(format) == SelectSeq(changes, LAMBDA e : e.format = format)

ServerEntries == Entries("Updated cluster %q server from %s to %s")

ClusterFieldEntries ==
    ServerEntries
        \o Entries("Updated cluster %q certificateAuthorityData from %s to %s")
        \o Entries("Updated cluster %q CA data from %s to %s")

AddedClusterEntries ==
    Entries("Added new cluster %q with server %s and certificateAuthorityData %s")
        \o Entries("Added cluster %q with server %s and CA data %s")

UserFieldEntries ==
    Entries("Updated user %q token from %s to %s")
        \o Entries("Updated user %q clientCertificateData from %s to %s")
        \o Entries("Updated user %q clientKeyData from %s to %s")
        \o Entries("Updated user %q client cert from %s to %s")
        \o Entries("Updated user %q client key from %s to %s")

AddedUserEntries ==
    Entries("Added new user %q with token %s, clientCertificateData %s, and clientKeyData %s")
        \o Entries("Added user %q with token %s, client cert %s, and client key %s")

\* ------------------------------------------------------------------------
\* C5
\* ------------------------------------------------------------------------

\* C5: after the merge into a target cluster that has an on-disk entry: for
\* an existing context answered updateServer = false there is no server
\* change entry and the entry keeps its pre-run server URL; when updateServer
\* is true, or the context is new (the confirm prompt was not shown), a server
\* URL that differs from the pasted one is replaced by it and reported by
\* exactly one server change entry.
C5_ServerGating ==
    (MergeDone /\ Named(ClusterList(PreRun), Target.cluster) # <<>>) =>
        LET pre == Named(ClusterList(PreRun), Target.cluster)[1].val.Server
            post == Named(ClusterList(origCfg), Target.cluster)[1].val.Server
            new == PastedClusterVal.Server
        IN  /\ newContext => "Update server URL" \notin Range(prompts)
            /\ (~newContext /\ ~updateServer) =>
                    /\ ServerEntries = <<>>
                    /\ post = pre
            /\ ((newContext \/ updateServer) /\ pre # new) =>
                    /\ post = new
                    /\ Len(ServerEntries) = 1
                    /\ ServerEntries[1].args[1] = Target.cluster

\* The merge has kept a server URL that differs from the pasted one, for an
\* existing context answered updateServer = false.
C5_Witness ==
    /\ MergeDone
    /\ ~newContext
    /\ ~updateServer
    /\ Named(ClusterList(PreRun), Target.cluster) # <<>>
    /\ Named(ClusterList(origCfg), Target.cluster)[1].val.Server = ServerOld
    /\ PastedClusterVal.Server = ServerNew

\* ------------------------------------------------------------------------
\* C8
\* ------------------------------------------------------------------------

\* C8: after a merge whose target cluster name had no on-disk entry, the
\* document holds exactly one more cluster entry, the only one of that name,
\* with the pasted cluster's server and CA data, and the change list holds
\* exactly one "added cluster" entry and no per-field cluster entry; after a
\* merge whose target user name had no on-disk entry, likewise for the user
\* with the pasted token, client certificate and client key.
C8_AddedEntity ==
    MergeDone =>
        /\ Named(ClusterList(PreRun), Target.cluster) = <<>> =>
            /\ Len(ClusterList(origCfg)) = Len(ClusterList(PreRun)) + 1
            /\ Named(ClusterList(origCfg), Target.cluster) =
                    <<[name |-> Target.cluster, val |-> PastedClusterVal]>>
            /\ Len(AddedClusterEntries) = 1
            /\ AddedClusterEntries[1].args[1] = Target.cluster
            /\ ClusterFieldEntries = <<>>
        /\ Named(UserList(PreRun), Target.user) = <<>> =>
            /\ Len(UserList(origCfg)) = Len(UserList(PreRun)) + 1
            /\ Named(UserList(origCfg), Target.user) =
                    <<[name |-> Target.user, val |-> PastedUserVal]>>
            /\ Len(AddedUserEntries) = 1
            /\ AddedUserEntries[1].args[1] = Target.user
            /\ UserFieldEntries = <<>>

\* The merge has added both a cluster entry and a user entry.
C8_Witness ==
    /\ MergeDone
    /\ Named(ClusterList(PreRun), Target.cluster) = <<>>
    /\ Named(UserList(PreRun), Target.user) = <<>>
    /\ Len(changes) = 2
    /\ PastedClusterVal.Server = ServerNew
    /\ PastedUserVal.Token = Tok16

\* ------------------------------------------------------------------------
\* C4
\* ------------------------------------------------------------------------

\* The contexts other than the target context: the target is a slice element
\* (yaml) or the map entry of a name (clientcmd).
OtherContexts(cfg) ==
    IF impl = "yaml"
    THEN LET list == ContextList(cfg)
         IN  [i \in 1..(Len(list) - (IF targetContext \in DOMAIN list THEN 1 ELSE 0)) |->
                IF i < targetContext THEN list[i] ELSE list[i + 1]]
    ELSE NotNamed(ContextList(cfg), targetContext)

\* The target context as the loaded document had it (empty for a context
\* the loaded document had not).
PreRunTarget ==
    IF impl = "yaml"
    THEN (IF targetContext \in DOMAIN ContextList(PreRun)
          THEN <<ContextList(PreRun)[targetContext]>> ELSE <<>>)
    ELSE Named(ContextList(PreRun), targetContext)

\* What the merge may not touch: the cluster entries not named like the
\* target context's final cluster, the user entries not named like its user,
\* the contexts other than the target context, the current-context marker;
\* and the file a successful apply run leaves holds the merged document.
FrameKept ==
    /\ NotNamed(ClusterList(origCfg), Target.cluster)
            = NotNamed(ClusterList(PreRun), Target.cluster)
    /\ NotNamed(UserList(origCfg), Target.user)
            = NotNamed(UserList(PreRun), Target.user)
    /\ OtherContexts(origCfg) = OtherContexts(PreRun)
    /\ origCfg.CurrentContext = PreRun.CurrentContext
    /\ (Succeeded /\ ~tryFlag) => Parse(files[configPath]) = origCfg

\* C4: after any merge the frame is kept, and of the target context only the
\* cluster reference may differ from its pre-run value.
C4_Frame ==
    MergeDone =>
        /\ FrameKept
        /\ PreRunTarget # <<>> => PreRunTarget[1].val.user = Target.user

\* ------------------------------------------------------------------------
\* C6
\* ------------------------------------------------------------------------

\* C6: the merge of a second run, on the file the first run wrote, with the
\* same pasted text and the same answers, records no change.
C6_SecondRunNoChanges ==
    (run >= 2 /\ MergeDone) => changes = <<>>

\* ------------------------------------------------------------------------
\* C10
\* ------------------------------------------------------------------------

UserPromptShown ==
    \E t \in {"Select a user from the pasted kubeconfig", "Select user from pasted config"} :
        t \in Range(prompts)

\* The pasted user has been looked up (and selected, on a miss).
UserResolved == pc \in {"merge", "output", "write"} \/ MergeDone

\* After the merge the entry of the target context's own user name holds the
\* resolved pasted user's credentials, and that name is the one the context
\* had on disk (or the one typed for a new context).
StoredUnderOwnName ==
    MergeDone =>
        /\ Named(UserList(origCfg), Target.user)[1].val = PastedUserVal
        /\ PreRunTarget # <<>> /\ ~newContext => Target.user = PreRunTarget[1].val.user
        /\ newContext => Target.user = answers["Enter new context name"].user

\* C10 as claimed: whenever the user name of the on-disk context selected as
\* the target is not among the pasted user names, the user selection prompt
\* has fired by the time the pasted user is resolved; and the credentials are stored under the target
\* context's own user name.
C10_PromptWhenTargetUserNotPasted ==
    /\ (UserResolved /\ ~newContext /\ Target.user \notin PastedUserNames)
            => UserPromptShown
    /\ StoredUnderOwnName

\* C10 as amended: the user selection prompt fires exactly when the resolved
\* pasted context's user reference is not among the pasted user names,
\* whatever the target context's user name is; and the credentials of the
\* resolved pasted user are stored under the target context's own user name.
C10_PromptWhenPastedContextUserMissing ==
    /\ UserResolved => (UserPromptShown <=> PastedContextUser \notin PastedUserNames)
    /\ StoredUnderOwnName

\* The operator has picked a pasted user at the prompt and the merge has
\* stored that user's token under the target context's user name, which the
\* paste lacks.
C10_Witness ==
    /\ MergeDone
    /\ UserPromptShown
    /\ Target.user \notin PastedUserNames
    /\ Named(UserList(origCfg), Target.user)[1].val.Token = Tok15
    /\ Named(UserList(PreRun), Target.user) # <<>>
    /\ Named(UserList(PreRun), Target.user)[1].val.Token = TokOld

\* ------------------------------------------------------------------------
\* C7
\* ------------------------------------------------------------------------

\* A value as the report shows it: whole up to 15 characters, else its first
\* 5 characters, "..." and its last 5.
Abridged(s) ==
    IF Len(s) >= 16
    THEN SubSeq(s, 1, 5) \o "..." \o SubSeq(s, Len(s) - 4, Len(s))
    ELSE s

\* A value the revision holds as text (yaml: every field, a blob being its
\* base64 text) or as bytes (clientcmd blobs: base64 text when shown, the
\* placeholder when empty).
ShownBlob(v) ==
    IF impl = "yaml" THEN Abridged(v)
    ELSE IF v = <<>> THEN "<empty>" ELSE Abridged(EncodeToString(v))

\* The on-disk values of the target's entries before the merge.
PreCluster == Named(ClusterList(PreRun), Target.cluster)[1].val

PreUser == Named(UserList(PreRun), Target.user)[1].val

\* The arguments of a change entry that the code renders with shorten or
\* shortenBytes, as the truncation rule gives them from the full values
\* (position 1 is the entry's name; the clientcmd revision prints a server
\* URL as it is, which is left out here).
RenderedAsRuled(e) ==
    LET f == e.format
    IN  /\ f \in {"Updated cluster %q certificateAuthorityData from %s to %s",
                  "Updated cluster %q CA data from %s to %s"} =>
                /\ e.args[2] = ShownBlob(PreCluster.CertificateAuthorityData)
                /\ e.args[3] = ShownBlob(PastedClusterVal.CertificateAuthorityData)
        /\ (f = "Updated cluster %q server from %s to %s" /\ impl = "yaml") =>
                /\ e.args[2] = Abridged(PreCluster.Server)
                /\ e.args[3] = Abridged(PastedClusterVal.Server)
        /\ f = "Added new cluster %q with server %s and certificateAuthorityData %s" =>
                /\ e.args[2] = Abridged(PastedClusterVal.Server)
                /\ e.args[3] = ShownBlob(PastedClusterVal.CertificateAuthorityData)
        /\ f = "Added cluster %q with server %s and CA data %s" =>
                e.args[3] = ShownBlob(PastedClusterVal.CertificateAuthorityData)
        /\ f = "Updated user %q token from %s to %s" =>
                /\ e.args[2] = Abridged(PreUser.Token)
                /\ e.args[3] = Abridged(PastedUserVal.Token)
        /\ f \in {"Updated user %q clientCertificateData from %s to %s",
                  "Updated user %q client cert from %s to %s"} =>
                /\ e.args[2] = ShownBlob(PreUser.ClientCertificateData)
                /\ e.args[3] = ShownBlob(PastedUserVal.ClientCertificateData)
        /\ f \in {"Updated user %q clientKeyData from %s to %s",
                  "Updated user %q client key from %s to %s"} =>
                /\ e.args[2] = ShownBlob(PreUser.ClientKeyData)
                /\ e.args[3] = ShownBlob(PastedUserVal.ClientKeyData)
        /\ f \in {"Added new user %q with token %s, clientCertificateData %s, and clientKeyData %s",
                  "Added user %q with token %s, client cert %s, and client key %s"} =>
                /\ e.args[2] = Abridged(PastedUserVal.Token)
                /\ e.args[3] = ShownBlob(PastedUserVal.ClientCertificateData)
                /\ e.args[4] = ShownBlob(PastedUserVal.ClientKeyData)

EntryRank(e) ==
    LET f == e.format
    IN  IF f \in {"Updated cluster %q certificateAuthorityData from %s to %s",
                  "Updated cluster %q CA data from %s to %s",
                  "Added new cluster %q with server %s and certificateAuthorityData %s",
                  "Added cluster %q with server %s and CA data %s"} THEN 1
        ELSE IF f = "Updated cluster %q server from %s to %s" THEN 2
        ELSE IF f \in {"Updated user %q token from %s to %s",
                       "Added new user %q with token %s, clientCertificateData %s, and clientKeyData %s",
                       "Added user %q with token %s, client cert %s, and client key %s"} THEN 3
        ELSE IF f \in {"Updated user %q clientCertificateData from %s to %s",
                       "Updated user %q client cert from %s to %s"} THEN 4
        ELSE 5

\* C11: the change entries stand in the order cluster CA data, cluster
\* server, user token, user client certificate, user client key, each at most
\* once, and the summary prints them in that order.
C11_ChangeOrder ==
    /\ \A i, j \in DOMAIN changes :
            i < j => EntryRank(changes[i]) < EntryRank(changes[j])
    /\ MergeDone => stdout.summary = Summary(changes)

\* ------------------------------------------------------------------------
\* C12
\* ------------------------------------------------------------------------

OneIf(b) == IF b THEN 1 ELSE 0

CaEntries ==
    Entries("Updated cluster %q certificateAuthorityData from %s to %s")
        \o Entries("Updated cluster %q CA data from %s to %s")

TokenEntries == Entries("Updated user %q token from %s to %s")

CertEntries ==
    Entries("Updated user %q clientCertificateData from %s to %s")
        \o Entries("Updated user %q client cert from %s to %s")

KeyEntries ==
    Entries("Updated user %q clientKeyData from %s to %s")
        \o Entries("Updated user %q client key from %s to %s")

\* The target's entries as the merge left them.
PostCluster == Named(ClusterList(origCfg), Target.cluster)[1].val

PostUser == Named(UserList(origCfg), Target.user)[1].val

\* C12: after a merge into a cluster entry that was on disk, the stored CA
\* data is the pasted one and there is a CA-data entry exactly when the
\* pre-run CA data differed from it; after a merge into a user entry that was
\* on disk, token, client certificate and client key are the pasted ones, each
\* has an entry exactly when its pre-run value differed, so the user entries
\* number the fields that differ; and with an empty change list every cluster
\* and user entry of the document is as it was loaded.
C12_EntriesMatchChanges ==
    MergeDone =>
        /\ Named(ClusterList(PreRun), Target.cluster) # <<>> =>
            /\ PostCluster.CertificateAuthorityData
                    = PastedClusterVal.CertificateAuthorityData
            /\ Len(CaEntries) = OneIf(PreCluster.CertificateAuthorityData
                                        # PastedClusterVal.CertificateAuthorityData)
            /\ \A e \in Range(CaEntries) : e.args[1] = Target.cluster
        /\ Named(UserList(PreRun), Target.user) # <<>> =>
            /\ PostUser = PastedUserVal
            /\ Len(TokenEntries) = OneIf(PreUser.Token # PastedUserVal.Token)
            /\ Len(CertEntries) = OneIf(PreUser.ClientCertificateData
                                        # PastedUserVal.ClientCertificateData)
            /\ Len(KeyEntries) = OneIf(PreUser.ClientKeyData
                                        # PastedUserVal.ClientKeyData)
            /\ Len(UserFieldEntries)
                    = Len(TokenEntries) + Len(CertEntries) + Len(KeyEntries)
            /\ \A e \in Range(UserFieldEntries) : e.args[1] = Target.user
            /\ AddedUserEntries = <<>>
        /\ changes = <<>> =>
            /\ ClusterList(origCfg) = ClusterList(PreRun)
            /\ UserList(origCfg) = UserList(PreRun)

\* A merge into on-disk entries has changed the CA data and two of the three
\* user fields, the client certificate being the pasted one already.
C12_Witness ==
    /\ MergeDone
    /\ Named(ClusterList(PreRun), Target.cluster) # <<>>
    /\ Named(UserList(PreRun), Target.user) # <<>>
    /\ PreUser.ClientCertificateData = PastedUserVal.ClientCertificateData
    /\ PreUser.ClientCertificateData # PreUser.ClientKeyData
    /\ Len(CaEntries) = 1
    /\ Len(UserFieldEntries) = 2
    /\ PostUser = PastedUserVal

\* ------------------------------------------------------------------------
\* C13
\* ------------------------------------------------------------------------

\* The pasted text has been read and parsed in this run.
PastedLoaded ==
    /\ "Paste kubeconfig" \in Range(prompts)
    /\ stderr \notin {"Error reading pasted kubeconfig", "Error parsing pasted kubeconfig"}

PastedClusterNames == {e.name : e \in Range(ClusterList(newCfg))}

\* The pasted cluster, context and user are all resolved to pasted entries.
AllResolved ==
    /\ ~IsNil(pastedCluster)
    /\ ~IsNil(pastedUser)
    /\ IF impl = "yaml" THEN ~IsNil(pastedContext)
       ELSE pastedContext \in DOMAIN newCfg.Contexts

\* What the pasted document lacks: any cluster; any user; a context that
\* references the cluster the resolution arrived at.
LacksCluster == PastedClusterNames = {}

LacksUser == PastedUserNames = {}

LacksContext ==
    /\ ~IsNil(pastedCluster)
    /\ \A e \in Range(ContextList(newCfg)) : e.val.cluster # Target.cluster

\* The run has ended with an error message before the merge, and has written
\* neither a backup nor the target.
EndedBeforeMerge ==
    /\ exitCode = 1
    /\ stderr # ""
    /\ ~MergeDone
    /\ changes = <<>>
    /\ backupPath = ""
    /\ ContentAt(files, configPath) = origData

\* C13: the merge step is entered only with the pasted cluster, context and
\* user resolved, no run ends in a panic, and a run whose pasted document
\* lacks a cluster, a user or a context of the resolved cluster ends with an
\* error exit before the merge, no file written.
C13_ResolutionFailure ==
    /\ pc = "merge" => AllResolved
    /\ exitCode # 2
    /\ (pc = "done" /\ PastedLoaded /\ (LacksCluster \/ LacksUser \/ LacksContext))
            => EndedBeforeMerge

\* ------------------------------------------------------------------------
\* C14
\* ------------------------------------------------------------------------

ClusterNames(cfg) == {e.name : e \in Range(ClusterList(cfg))}

UserNames(cfg) == {e.name : e \in Range(UserList(cfg))}

\* C14: from the end of the merge on (the print step of a try run, the
\* backup and write steps of an apply run, the end of the run) the target
\* context's cluster reference names a cluster entry of the merged document
\* and its user reference a user entry of it; the document a successful apply
\* run has written holds both entries as well.
C14_ReferentialIntegrity ==
    MergeDone =>
        /\ Target.cluster \in ClusterNames(origCfg)
        /\ Target.user \in UserNames(origCfg)
        /\ (Succeeded /\ ~tryFlag) =>
                /\ Target.cluster \in ClusterNames(Parse(files[configPath]))
                /\ Target.user \in UserNames(Parse(files[configPath]))

\* An apply run on an existing context whose cluster and user references
\* were dangling in the loaded document, the cluster reference renamed to a
\* pasted cluster, has written a document that holds both entries.
C14_Witness ==
    /\ MergeDone
    /\ Succeeded
    /\ ~tryFlag
    /\ ~newContext
    /\ PreRunTarget # <<>>
    /\ PreRunTarget[1].val.cluster \notin ClusterNames(PreRun)
    /\ PreRunTarget[1].val.user \notin UserNames(PreRun)
    /\ PreRunTarget[1].val.cluster # Target.cluster
    /\ Target.cluster \notin ClusterNames(PreRun)
    /\ Target.cluster \in ClusterNames(Parse(files[configPath]))
    /\ Target.user \in UserNames(Parse(files[configPath]))

====
